---- MODULE Spec2Model ----
(***************************************************************************)
(* Model of src/server.js: the authoritative countdown-clock / video state *)
(* of the INNOVEX server, its socket.io event handlers and the messages    *)
(* they emit.  Every handler runs to completion (Node's single-threaded    *)
(* event loop), so one handler is one action.                              *)
(***************************************************************************)
EXTENDS Integers, Sequences, FiniteSets, TLC

(* ---------------- bounds of the model ---------------- *)
NumPeers == 2
MaxTicks == 1
TickMs == 800
Now0 == 1000

(* ---------------- program constants ---------------- *)
DebounceMs == 800
DefaultClockMs == 86400000
MsThreshold == 100000
MsPerMinute == 60000

Peers == 1..NumPeers

(* ---------------- values ---------------- *)
\* A nullable JS number: null, or the number v.
Null == [null |-> TRUE, v |-> 0]
Num(n) == [null |-> FALSE, v |-> n]

\* JS truthiness of a nullable number: null and 0 are falsy.
Truthy(x) == (~x.null) /\ x.v # 0

Max(a, b) == IF a >= b THEN a ELSE b

\* An event argument as it arrives over the wire: t is its typeof, and
\* (nan, v) is what Number(arg) gives: NaN, or the number v.
\* half says the number is v + 1/2 (sent only where the handler floors it).
PUndef == [t |-> "undefined", v |-> 0, nan |-> TRUE, half |-> FALSE]
PNum(n) == [t |-> "number", v |-> n, nan |-> FALSE, half |-> FALSE]
PNumStr(n) == [t |-> "string", v |-> n, nan |-> FALSE, half |-> FALSE]
PBadStr == [t |-> "string", v |-> 0, nan |-> TRUE, half |-> FALSE]
PTrue == [t |-> "boolean", v |-> 1, nan |-> FALSE, half |-> FALSE]
PHalf(n) == [t |-> "number", v |-> n, nan |-> FALSE, half |-> TRUE]

\* Math.floor of a numeric argument.
Floor(p) == p.v

\* Arguments a peer may send as a duration in ms (play-teaser's data.ms,
\* start-clock's durationMs).
MsPayloads == {PUndef, PNum(0 - TickMs), PNum(0), PNum(TickMs)}

\* Arguments a peer may send with start-clock: those, and the negative
\* duration that makes the end time Date.now() + ms come out as 0.
StartClockPayloads == MsPayloads \cup {PNum(0 - Now0)}

\* Arguments a peer may send with set-remaining.
SetRemainingPayloads == {PUndef, PNumStr(1), PNum(0 - 1), PHalf(1), PNum(2 * MsThreshold)}

\* Arguments a peer may send with sync-timestamp.
SyncPayloads == {PUndef, PNumStr(Now0 + TickMs), PTrue, PNum(0), PNum(Now0 + TickMs)}

(* ---------------- state ---------------- *)
VARIABLES state, now, connected, lastFakePress, emitted, lastUpdate, lastEv, pre, at

vars == <<state, now, connected, lastFakePress, emitted, lastUpdate, lastEv, pre, at>>

\* let state = {...}
InitState == [endTimestamp |-> Null, pausedRemaining |-> Null, running |-> FALSE, pendingClockMs |-> Null, videoPlaying |-> FALSE, videoType |-> "null"]

\* What a peer has before its first state-update.
NoUpdate == [none |-> TRUE]

\* The payload of an event emitted without arguments.
NoPayload == [none |-> TRUE]

(* ---------------- emitting ---------------- *)
\* A handler in progress: the state record as mutated so far and the
\* messages emitted so far.  socket.io serialises the payload when emit is
\* called, so a message carries the state as it is at that point.
Begin(st) == [st |-> st, out |-> <<>>]

ioEmit(h, ev, payload) == [h EXCEPT !.out = Append(@, [ev |-> ev, to |-> "io", payload |-> payload])]

socketEmit(h, ev, payload) == [h EXCEPT !.out = Append(@, [ev |-> ev, to |-> "socket", payload |-> payload])]

broadcastState(h) == ioEmit(h, "state-update", h.st)

\* A start that leaves the queued duration in place.
startClockFromMs_KeepsPending(h, ms, t) == broadcastState([h EXCEPT !.st = [@ EXCEPT !.endTimestamp = Num(t + ms), !.pausedRemaining = Null, !.running = TRUE, !.videoPlaying = FALSE, !.videoType = "null"]])

\* A start that broadcasts first and writes the state afterwards.
startClockFromMs_BroadcastsFirst(h, ms, t) ==
  [broadcastState(h) EXCEPT !.st = [@ EXCEPT !.endTimestamp = Num(t + ms), !.pausedRemaining = Null, !.running = TRUE, !.pendingClockMs = Null, !.videoPlaying = FALSE, !.videoType = "null"]]

startClockFromMs(h, ms, t) == broadcastState([h EXCEPT !.st = [@ EXCEPT !.endTimestamp = Num(t + ms), !.pausedRemaining = Null, !.running = TRUE, !.pendingClockMs = Null, !.videoPlaying = FALSE, !.videoType = "null"]])

(* ---------------- the handlers of io.on('connection') ---------------- *)
\* Each takes the state before the event, the event's argument and the
\* time Date.now() returns, and gives the state after and what was emitted.

\* socket.on('fake-press'): last is socket._lastFakePress, id is socket.id.
\* A fake-press that also drops a press exactly 800 ms after the last one.
OnFakePress_Inclusive(last, id, t) ==
  IF t - last <= DebounceMs
  THEN [last |-> last, out |-> <<>>]
  ELSE socketEmit(ioEmit([last |-> t, out |-> <<>>], "fake-press", NoPayload),
                  "fake-press-ack", [from |-> "server", timestamp |-> t, socketId |-> id])

\* A fake-press that acknowledges to every socket.
OnFakePress_AckToAll(last, id, t) ==
  IF t - last < DebounceMs
  THEN [last |-> last, out |-> <<>>]
  ELSE ioEmit(ioEmit([last |-> t, out |-> <<>>], "fake-press", NoPayload),
              "fake-press-ack", [from |-> "server", timestamp |-> t, socketId |-> id])

OnFakePress(last, id, t) ==
  IF t - last < DebounceMs
  THEN [last |-> last, out |-> <<>>]
  ELSE socketEmit(ioEmit([last |-> t, out |-> <<>>], "fake-press", NoPayload),
                  "fake-press-ack", [from |-> "server", timestamp |-> t, socketId |-> id])

\* A play-teaser that keeps a duration already queued.
OnPlayTeaser_KeepsPending(st, dataMs, t) ==
  LET ms == IF dataMs.t = "number" THEN dataMs.v ELSE DefaultClockMs
  IN broadcastState(Begin([st EXCEPT !.pendingClockMs = IF Truthy(@) THEN @ ELSE Num(ms), !.videoPlaying = TRUE, !.videoType = "teaser"]))

OnPlayTeaser(st, dataMs, t) ==
  LET ms == IF dataMs.t = "number" THEN dataMs.v ELSE DefaultClockMs
  IN broadcastState(Begin([st EXCEPT !.pendingClockMs = Num(ms), !.videoPlaying = TRUE, !.videoType = "teaser"]))

OnPlayVideo(st, t) ==
  broadcastState(Begin([st EXCEPT !.videoPlaying = TRUE, !.videoType = "video"]))

OnSkipVideo(st, t) ==
  LET wasTeaser == st.videoType = "teaser" /\ Truthy(st.pendingClockMs)
      cleared == [st EXCEPT !.videoPlaying = FALSE, !.videoType = "null"]
  IN IF wasTeaser
     THEN startClockFromMs(Begin(cleared), cleared.pendingClockMs.v, t)
     ELSE broadcastState(Begin(cleared))

\* A stop-video that also drops the queued duration.
OnStopVideo_ClearsPending(st, t) ==
  broadcastState(Begin([st EXCEPT !.videoPlaying = FALSE, !.videoType = "null", !.pendingClockMs = Null]))

\* A stop-video that forgets to clear the type.
OnStopVideo_KeepsType(st, t) ==
  broadcastState(Begin([st EXCEPT !.videoPlaying = FALSE]))

OnStopVideo(st, t) ==
  broadcastState(Begin([st EXCEPT !.videoPlaying = FALSE, !.videoType = "null"]))

\* A start-clock that starts at once whether or not a video is playing.
OnStartClock_IgnoresVideo(st, durationMs, t) ==
  LET ms == IF durationMs.t = "number" THEN durationMs.v ELSE DefaultClockMs
  IN startClockFromMs(Begin(st), ms, t)

OnStartClock(st, durationMs, t) ==
  LET ms == IF durationMs.t = "number" THEN durationMs.v ELSE DefaultClockMs
  IN IF st.videoPlaying
     THEN broadcastState(Begin([st EXCEPT !.pendingClockMs = Num(ms)]))
     ELSE startClockFromMs(Begin(st), ms, t)

\* A pause-clock that keeps the end time itself as the remainder.
OnPauseClock_StoresEnd(st, t) ==
  IF st.running /\ Truthy(st.endTimestamp)
  THEN broadcastState(Begin([st EXCEPT !.pausedRemaining = Num(Max(0, st.endTimestamp.v)), !.endTimestamp = Null, !.running = FALSE]))
  ELSE broadcastState(Begin(st))

OnPauseClock(st, t) ==
  IF st.running /\ Truthy(st.endTimestamp)
  THEN broadcastState(Begin([st EXCEPT !.pausedRemaining = Num(Max(0, st.endTimestamp.v - t)), !.endTimestamp = Null, !.running = FALSE]))
  ELSE broadcastState(Begin(st))

\* A resume-clock that, finding no paused remainder, starts the clock at 0.
OnResumeClock_StartsAnyway(st, t) ==
  IF ~st.pausedRemaining.null
  THEN startClockFromMs(Begin(st), st.pausedRemaining.v, t)
  ELSE startClockFromMs(Begin(st), 0, t)

OnResumeClock(st, t) ==
  IF ~st.pausedRemaining.null
  THEN startClockFromMs(Begin(st), st.pausedRemaining.v, t)
  ELSE broadcastState(Begin(st))

\* A stop-clock that forgets to clear the end time.
OnStopClock_KeepsEnd(st, t) ==
  broadcastState(Begin([st EXCEPT !.pausedRemaining = Null, !.running = FALSE, !.pendingClockMs = Null]))

\* A stop-clock that freezes the clock as pause-clock does.
OnStopClock_Freezes(st, t) == OnPauseClock(st, t)

\* A stop-clock that leaves the queued duration in place.
OnStopClock_KeepsPending(st, t) ==
  broadcastState(Begin([st EXCEPT !.endTimestamp = Null, !.pausedRemaining = Null, !.running = FALSE]))

OnStopClock(st, t) ==
  broadcastState(Begin([st EXCEPT !.endTimestamp = Null, !.pausedRemaining = Null, !.running = FALSE, !.pendingClockMs = Null]))

\* The ms set-remaining derives from its argument: null when the argument is
\* not a number.  (An argument above the threshold is taken as whole ms.)
SetRemainingMs(minutesOrMs) ==
  IF minutesOrMs.t = "number"
  THEN IF minutesOrMs.v > MsThreshold \/ (minutesOrMs.v = MsThreshold /\ minutesOrMs.half)
       THEN Num(minutesOrMs.v)
       ELSE Num(Max(0, Floor(minutesOrMs) * MsPerMinute))
  ELSE Null

\* A set-remaining that also drops the queued duration.
OnSetRemaining_DropsPending(st, minutesOrMs, t) ==
  LET ms == SetRemainingMs(minutesOrMs)
  IN IF ms.null
     THEN Begin(st)
     ELSE IF st.running
          THEN broadcastState(Begin([st EXCEPT !.endTimestamp = Num(t + ms.v), !.pendingClockMs = Null]))
          ELSE broadcastState(Begin([st EXCEPT !.pausedRemaining = ms, !.pendingClockMs = Null]))

OnSetRemaining(st, minutesOrMs, t) ==
  LET ms == SetRemainingMs(minutesOrMs)
  IN IF ms.null
     THEN Begin(st)
     ELSE IF st.running
          THEN broadcastState(Begin([st EXCEPT !.endTimestamp = Num(t + ms.v)]))
          ELSE broadcastState(Begin([st EXCEPT !.pausedRemaining = ms]))

\* A sync-timestamp that sets the end time whether or not a video is playing.
OnSyncTimestamp_IgnoresVideo(st, timestamp, t) ==
  IF timestamp.nan \/ timestamp.v <= 0
  THEN Begin(st)
  ELSE broadcastState(Begin([st EXCEPT !.endTimestamp = Num(timestamp.v), !.pausedRemaining = Null, !.running = TRUE]))

\* A sync-timestamp that forgets to clear the paused remainder.
OnSyncTimestamp_KeepsPaused(st, timestamp, t) ==
  IF timestamp.nan \/ timestamp.v <= 0
  THEN Begin(st)
  ELSE IF st.videoPlaying
       THEN broadcastState(Begin([st EXCEPT !.pendingClockMs = Num(Max(0, timestamp.v - t))]))
       ELSE broadcastState(Begin([st EXCEPT !.endTimestamp = Num(timestamp.v), !.running = TRUE]))

OnSyncTimestamp(st, timestamp, t) ==
  IF timestamp.nan \/ timestamp.v <= 0
  THEN Begin(st)
  ELSE IF st.videoPlaying
       THEN broadcastState(Begin([st EXCEPT !.pendingClockMs = Num(Max(0, timestamp.v - t))]))
       ELSE broadcastState(Begin([st EXCEPT !.endTimestamp = Num(timestamp.v), !.pausedRemaining = Null, !.running = TRUE]))

\* A video-ended that starts the pending clock after a teaser only.
OnVideoEnded_TeaserOnly(st, t) ==
  LET wasTeaser == st.videoType = "teaser" /\ Truthy(st.pendingClockMs)
      cleared == [st EXCEPT !.videoPlaying = FALSE, !.videoType = "null"]
  IN IF wasTeaser
     THEN startClockFromMs(Begin(cleared), cleared.pendingClockMs.v, t)
     ELSE broadcastState(Begin(cleared))

OnVideoEnded(st, t) ==
  LET cleared == [st EXCEPT !.videoPlaying = FALSE, !.videoType = "null"]
  IN IF Truthy(cleared.pendingClockMs)
     THEN startClockFromMs(Begin(cleared), cleared.pendingClockMs.v, t)
     ELSE broadcastState(Begin(cleared))

OnVideoError(st, t) ==
  LET cleared == [st EXCEPT !.videoPlaying = FALSE, !.videoType = "null"]
  IN IF Truthy(cleared.pendingClockMs)
     THEN startClockFromMs(Begin(cleared), cleared.pendingClockMs.v, t)
     ELSE broadcastState(Begin(cleared))

(* ---------------- the state machine ---------------- *)
\* The sockets a message emitted by a handler of socket p reaches.
Recipients(m, p) == IF m.to = "io" THEN connected ELSE {p}

\* The messages of out as delivered, emitted from a handler of socket p.
Sent(out, p) == [i \in 1..Len(out) |-> [ev |-> out[i].ev, to |-> Recipients(out[i], p), payload |-> out[i].payload]]

\* The last state-update among msgs that reaches q, or old when there is none.
LastUpdateOf(msgs, q, old) ==
  LET idx == {i \in 1..Len(msgs) : msgs[i].ev = "state-update" /\ q \in msgs[i].to}
  IN IF idx = {} THEN old ELSE msgs[CHOOSE i \in idx : \A j \in idx : j <= i].payload

\* History of the last event handled (emitted is what it emitted, pre the
\* state it found, at the time it ran): its name, its argument and, for the events whose
\* handler uses the socket itself, the socket (0 otherwise).
Event(type, p, arg) == [type |-> type, socket |-> p, arg |-> arg]

\* Some connected socket sent a clock or video event, and its handler ran to
\* completion with result h.  These handlers use their socket only in log
\* lines and emit through io alone, so which socket sent it is not recorded.
Handled(type, arg, h) ==
  /\ connected # {}
  /\ state' = h.st
  /\ emitted' = Sent(h.out, 0)
  /\ lastUpdate' = [q \in Peers |-> LastUpdateOf(Sent(h.out, 0), q, lastUpdate[q])]
  /\ pre' = state /\ at' = now
  /\ lastEv' = Event(type, 0, arg)
  /\ UNCHANGED <<now, connected, lastFakePress>>

Init ==
  /\ state = InitState
  /\ now = Now0
  /\ connected = {}
  /\ lastFakePress = [p \in Peers |-> 0]
  /\ emitted = <<>>
  /\ lastUpdate = [p \in Peers |-> NoUpdate]
  /\ lastEv = Event("listen", 0, PUndef)
  /\ pre = InitState
  /\ at = Now0

\* Date.now() advances between events.
Tick ==
  /\ now < Now0 + MaxTicks * TickMs
  /\ now' = now + TickMs
  /\ UNCHANGED <<state, connected, lastFakePress, emitted, lastUpdate, lastEv, pre, at>>

\* A connection that is not sent the state.
Connect_NoInitialState(p) ==
  /\ p \notin connected
  /\ connected' = connected \cup {p}
  /\ lastFakePress' = [lastFakePress EXCEPT ![p] = 0]
  /\ emitted' = <<>>
  /\ lastUpdate' = lastUpdate
  /\ pre' = state /\ at' = now
  /\ lastEv' = Event("connection", p, PUndef)
  /\ UNCHANGED <<state, now>>

\* io.on('connection'): a new socket p.
Connect(p) ==
  /\ p \notin connected
  /\ connected' = connected \cup {p}
  /\ lastFakePress' = [lastFakePress EXCEPT ![p] = 0]
  /\ emitted' = <<[ev |-> "state-update", to |-> {p}, payload |-> state]>>
  /\ lastUpdate' = [lastUpdate EXCEPT ![p] = state]
  /\ pre' = state /\ at' = now
  /\ lastEv' = Event("connection", p, PUndef)
  /\ UNCHANGED <<state, now>>

\* socket.on('disconnect'): the socket is gone, and what it held with it.
Disconnect(p) ==
  /\ p \in connected
  /\ connected' = connected \ {p}
  /\ lastFakePress' = [lastFakePress EXCEPT ![p] = 0]
  /\ emitted' = <<>>
  /\ lastUpdate' = [lastUpdate EXCEPT ![p] = NoUpdate]
  /\ pre' = state /\ at' = now
  /\ lastEv' = Event("disconnect", p, PUndef)
  /\ UNCHANGED <<state, now>>

\* A fake-press with one debounce window shared by all sockets.
FakePress_SharedWindow(p) ==
  /\ p \in connected
  /\ LET r == OnFakePress(lastFakePress[p], p, now)
     IN /\ lastFakePress' = [q \in Peers |-> IF q \in connected THEN r.last ELSE lastFakePress[q]]
        /\ emitted' = Sent(r.out, p)
        /\ lastUpdate' = [q \in Peers |-> LastUpdateOf(Sent(r.out, p), q, lastUpdate[q])]
  /\ pre' = state /\ at' = now
  /\ lastEv' = Event("fake-press", p, PUndef)
  /\ UNCHANGED <<state, now, connected>>

FakePress(p) ==
  /\ p \in connected
  /\ LET r == OnFakePress(lastFakePress[p], p, now)
     IN /\ lastFakePress' = [lastFakePress EXCEPT ![p] = r.last]
        /\ emitted' = Sent(r.out, p)
        /\ lastUpdate' = [q \in Peers |-> LastUpdateOf(Sent(r.out, p), q, lastUpdate[q])]
  /\ pre' = state /\ at' = now
  /\ lastEv' = Event("fake-press", p, PUndef)
  /\ UNCHANGED <<state, now, connected>>

PlayTeaser == \E a \in MsPayloads : Handled("play-teaser", a, OnPlayTeaser(state, a, now))

PlayVideo == Handled("play-video", PUndef, OnPlayVideo(state, now))

SkipVideo == Handled("skip-video", PUndef, OnSkipVideo(state, now))

StopVideo == Handled("stop-video", PUndef, OnStopVideo(state, now))

StartClock == \E a \in StartClockPayloads : Handled("start-clock", a, OnStartClock(state, a, now))

PauseClock == Handled("pause-clock", PUndef, OnPauseClock(state, now))

ResumeClock == Handled("resume-clock", PUndef, OnResumeClock(state, now))

StopClock == Handled("stop-clock", PUndef, OnStopClock(state, now))

SetRemaining == \E a \in SetRemainingPayloads : Handled("set-remaining", a, OnSetRemaining(state, a, now))

SyncTimestamp == \E a \in SyncPayloads : Handled("sync-timestamp", a, OnSyncTimestamp(state, a, now))

VideoEnded == Handled("video-ended", PUndef, OnVideoEnded(state, now))

VideoError == Handled("video-error", PUndef, OnVideoError(state, now))

\* The clock and video machine: every event that reads or writes state.
Next ==
  \/ Tick
  \/ \E p \in Peers : Connect(p)
  \/ \E p \in Peers : Disconnect(p)
  \/ PlayTeaser
  \/ PlayVideo
  \/ SkipVideo
  \/ StopVideo
  \/ StartClock
  \/ PauseClock
  \/ ResumeClock
  \/ StopClock
  \/ SetRemaining
  \/ SyncTimestamp
  \/ VideoEnded
  \/ VideoError

Spec == Init /\ [][Next]_vars

\* The debounce of fake-press, which reads and writes socket._lastFakePress
\* alone, next to events that write state.
NextPress ==
  \/ Tick
  \/ \E p \in Peers : Connect(p)
  \/ \E p \in Peers : Disconnect(p)
  \/ \E p \in Peers : FakePress(p)
  \/ PlayTeaser
  \/ StartClock
  \/ PauseClock
  \/ VideoEnded

SpecPress == Init /\ [][NextPress]_vars

(* ---------------- properties ---------------- *)
Present(x) == ~x.null

\* C1: in every reachable state, running is true if and only if
\* endTimestamp is present (non-null).
RunningIffEndTimestamp == state.running <=> Present(state.endTimestamp)

\* C1 witness: a stop-clock has just taken a running clock (with its end
\* time) down to not running and no end time.
RunningIffEndTimestamp_Witness ==
  /\ lastEv.type = "stop-clock"
  /\ pre.running /\ Present(pre.endTimestamp)
  /\ ~state.running /\ ~Present(state.endTimestamp)

\* C2: in every reachable state, pausedRemaining is present only while
\* running is false; whatever leaves the clock running leaves it absent.
PausedOnlyWhenStopped == Present(state.pausedRemaining) => ~state.running

\* C2 witness: a sync-timestamp has just started the clock from a state that
\* held a paused remainder, and the remainder is gone.
PausedOnlyWhenStopped_Witness ==
  /\ lastEv.type = "sync-timestamp"
  /\ Present(pre.pausedRemaining)
  /\ state.running /\ ~Present(state.pausedRemaining)

\* C3: in every reachable state, videoPlaying = false implies videoType is
\* none (null).
NoTypeWithoutVideo == (~state.videoPlaying) => state.videoType = "null"

\* C3 witness: a stop-video has just ended a playing teaser or video.
NoTypeWithoutVideo_Witness ==
  /\ lastEv.type = "stop-video"
  /\ pre.videoPlaying /\ pre.videoType # "null"
  /\ ~state.videoPlaying /\ state.videoType = "null"

\* C4: in every reachable state, pendingClockMs, when present, is a
\* non-negative duration, whatever number a peer sends.
PendingNonNegative == Present(state.pendingClockMs) => state.pendingClockMs.v >= 0

\* The state-update messages among those the last event emitted.
StateUpdates == {i \in 1..Len(emitted) : emitted[i].ev = "state-update"}

\* C5: every event that changes the state is followed, before the next
\* event is handled, by exactly one state-update broadcast to all connected
\* peers, whose payload is the committed state.
OneBroadcastPerMutation ==
  state # pre =>
    /\ Cardinality(StateUpdates) = 1
    /\ \A i \in StateUpdates : emitted[i].to = connected /\ emitted[i].payload = state

\* C5 witness: a skip-video has just started the deferred clock (two writes
\* of the state, in the handler and in startClockFromMs) and two connected
\* peers were sent the one broadcast of the final state.
OneBroadcastPerMutation_Witness ==
  /\ lastEv.type = "skip-video"
  /\ pre.videoPlaying /\ ~pre.running /\ state.running
  /\ Cardinality(connected) = 2
  /\ emitted = <<[ev |-> "state-update", to |-> connected, payload |-> state]>>

\* C6: the first message a newly connected peer receives is a private
\* state-update equal to the state at connection time (a peer receives nothing
\* before it connects), and between events the last state-update every
\* connected peer received equals the current state.
PeersSeeCurrentState ==
  /\ \A p \in connected : lastUpdate[p] = state
  /\ \A p \in Peers \ connected : lastUpdate[p] = NoUpdate
  /\ lastEv.type = "connection" =>
       /\ pre = state
       /\ emitted = <<[ev |-> "state-update", to |-> {lastEv.socket}, payload |-> pre]>>

\* C6 witness: a late joiner has just connected, after the state has moved
\* away from the initial one, next to a peer that connected earlier.
PeersSeeCurrentState_Witness ==
  /\ lastEv.type = "connection"
  /\ state # InitState
  /\ Cardinality(connected) = 2
  /\ \A p \in connected : lastUpdate[p] = state

\* The duration an event carries: its argument when a number, else 24h.
MsOf(ev) == IF ev.arg.t = "number" THEN ev.arg.v ELSE DefaultClockMs

\* C7: for every non-negative ms (0 included), play-teaser carrying ms
\* yields videoPlaying, videoType teaser and pendingClockMs = ms, and a
\* video-ended handled next, at time now, yields no video, running,
\* endTimestamp = now + ms and no pendingClockMs.
DeferredStart ==
  [][/\ (lastEv'.type = "play-teaser" /\ lastEv'.arg.t = "number" /\ lastEv'.arg.v >= 0) =>
          /\ state'.videoPlaying /\ state'.videoType = "teaser"
          /\ state'.pendingClockMs = Num(lastEv'.arg.v)
     /\ (lastEv.type = "play-teaser" /\ lastEv.arg.t = "number" /\ lastEv.arg.v >= 0 /\ lastEv'.type = "video-ended") =>
          /\ ~state'.videoPlaying /\ state'.videoType = "null"
          /\ state'.running /\ state'.endTimestamp = Num(now + lastEv.arg.v)
          /\ ~Present(state'.pendingClockMs)]_vars

\* video-error leaves the state and the broadcasts video-ended would.
VideoErrorAsVideoEnded ==
  lastEv.type = "video-error" =>
    /\ state = OnVideoEnded(pre, at).st
    /\ emitted = Sent(OnVideoEnded(pre, at).out, 0)

\* C8: from every reachable state video-error produces the same next state
\* and the same broadcasts as video-ended, and whenever a pending clock value
\* exists video-error starts the clock from it.
VideoErrorStartsPending ==
  /\ VideoErrorAsVideoEnded
  /\ (lastEv.type = "video-error" /\ Present(pre.pendingClockMs)) =>
       /\ state.running
       /\ state.endTimestamp = Num(at + pre.pendingClockMs.v)

\* C9 as stated: from every reachable state video-ended has the effect of
\* skip-video, and starts the clock exactly when skip-video would.
VideoEndedAsSkipVideo ==
  lastEv.type = "video-ended" =>
    /\ state = OnSkipVideo(pre, at).st
    /\ emitted = Sent(OnSkipVideo(pre, at).out, 0)

\* C9 as amended: video-ended has the effect of skip-video from every state
\* where videoType is teaser or pendingClockMs is absent or 0; from the
\* other states (a video or nothing playing and a non-zero pendingClockMs)
\* video-ended starts the clock from pendingClockMs, while skip-video only
\* clears videoPlaying and videoType and keeps pendingClockMs.
VideoEndedAsSkipVideoAfterTeaser ==
  lastEv.type = "video-ended" =>
    IF pre.videoType = "teaser" \/ ~Truthy(pre.pendingClockMs)
    THEN /\ state = OnSkipVideo(pre, at).st
         /\ emitted = Sent(OnSkipVideo(pre, at).out, 0)
    ELSE /\ state = [pre EXCEPT !.endTimestamp = Num(at + pre.pendingClockMs.v), !.pausedRemaining = Null, !.running = TRUE, !.pendingClockMs = Null, !.videoPlaying = FALSE, !.videoType = "null"]
         /\ OnSkipVideo(pre, at).st = [pre EXCEPT !.videoPlaying = FALSE, !.videoType = "null"]

\* C9 witness: a video-ended has just ended a teaser with a pending clock,
\* and started the clock from it as skip-video would have.
VideoEndedAsSkipVideoAfterTeaser_Witness ==
  /\ lastEv.type = "video-ended"
  /\ pre.videoPlaying /\ pre.videoType = "teaser" /\ Truthy(pre.pendingClockMs)
  /\ state.running /\ state.endTimestamp = Num(at + pre.pendingClockMs.v)

\* C10 as stated: from every reachable state, a video playing or not,
\* start-clock(ms) handled at time now yields running, endTimestamp =
\* now + ms (24h when ms is omitted) and neither pausedRemaining nor
\* pendingClockMs.
StartClockAlwaysStarts ==
  lastEv.type = "start-clock" =>
    /\ state.running
    /\ state.endTimestamp = Num(at + MsOf(lastEv))
    /\ ~Present(state.pausedRemaining)
    /\ ~Present(state.pendingClockMs)

\* C10 as amended: from every reachable state where no video is playing,
\* start-clock(ms) yields running, endTimestamp = now + ms (24h when ms is
\* omitted) and neither pausedRemaining nor pendingClockMs; while a teaser or
\* video is playing it sets pendingClockMs = ms and changes nothing else.
StartClockStartsUnlessVideo ==
  lastEv.type = "start-clock" =>
    IF pre.videoPlaying
    THEN state = [pre EXCEPT !.pendingClockMs = Num(MsOf(lastEv))]
    ELSE /\ state.running
         /\ state.endTimestamp = Num(at + MsOf(lastEv))
         /\ ~Present(state.pausedRemaining)
         /\ ~Present(state.pendingClockMs)

\* C10 witness: a start-clock without ms has just started a paused clock,
\* no video playing, for 24h.
StartClockStartsUnlessVideo_Witness ==
  /\ lastEv.type = "start-clock" /\ lastEv.arg = PUndef
  /\ ~pre.videoPlaying /\ ~pre.running /\ Present(pre.pausedRemaining)
  /\ state.running /\ state.endTimestamp = Num(at + DefaultClockMs)

\* C11: pause-clock handled at time now while running sets pausedRemaining =
\* max(0, endTimestamp - now), clears endTimestamp and sets running = false,
\* leaving pendingClockMs, videoPlaying and videoType as they were; while not
\* running it leaves every field unchanged.
PauseFreezesRunningClock ==
  lastEv.type = "pause-clock" =>
    IF pre.running
    THEN state = [pre EXCEPT !.pausedRemaining = Num(Max(0, pre.endTimestamp.v - at)), !.endTimestamp = Null, !.running = FALSE]
    ELSE state = pre

\* C12 as stated: stop-clock freezes the clock as pause-clock does: running,
\* it leaves pausedRemaining = max(0, endTimestamp - now) for a following
\* resume-clock to continue from; not running, it changes nothing.
StopClockAsPause ==
  lastEv.type = "stop-clock" =>
    IF pre.running
    THEN /\ state.pausedRemaining = Num(Max(0, pre.endTimestamp.v - at))
         /\ OnResumeClock(state, at).st.running
    ELSE state = pre

\* C12 as amended: stop-clock is no freeze but an unconditional reset: from
\* every reachable state, running or not, it leaves endTimestamp,
\* pausedRemaining and pendingClockMs absent, running = false and the video
\* fields as they were, so that a following resume-clock finds nothing to
\* continue and changes nothing.
StopClockResets ==
  lastEv.type = "stop-clock" =>
    /\ state = [pre EXCEPT !.endTimestamp = Null, !.pausedRemaining = Null, !.running = FALSE, !.pendingClockMs = Null]
    /\ OnResumeClock(state, at).st = state

\* C12 witness: a stop-clock has just reset a running clock that had time
\* left, and kept no remainder of it.
StopClockResets_Witness ==
  /\ lastEv.type = "stop-clock"
  /\ pre.running /\ pre.endTimestamp.v > at
  /\ ~state.running /\ ~Present(state.pausedRemaining) /\ ~Present(state.endTimestamp)

\* C13: resume-clock with pausedRemaining absent is a no-op: every field of
\* the state is as it was, and what it emits is a state-update whose payload
\* is the one the peers were last sent (the state the event found).
ResumeWithoutPausedIsNoOp ==
  (lastEv.type = "resume-clock" /\ ~Present(pre.pausedRemaining)) =>
    /\ state = pre
    /\ \A i \in 1..Len(emitted) : emitted[i].ev = "state-update" /\ emitted[i].payload = pre

\* C13 witness: a resume-clock has just found no paused remainder, a teaser
\* playing with a clock pending, and left all of it as it was.
ResumeWithoutPausedIsNoOp_Witness ==
  /\ lastEv.type = "resume-clock"
  /\ ~Present(pre.pausedRemaining) /\ pre.videoPlaying /\ Present(pre.pendingClockMs)
  /\ state = pre /\ Len(emitted) = 1

\* C14 as stated: from every running state with end time E, one already past
\* included, pause-clock at t followed by resume-clock at t' >= t, nothing
\* else handled in between, restores running with endTimestamp = E + (t' - t).
\* (In the step that handles the resume, pre and at are the state and time
\* the pause found, and now is t'.)
PauseResumeRoundTrip ==
  [][(lastEv.type = "pause-clock" /\ pre.running /\ lastEv'.type = "resume-clock") =>
        /\ state'.running
        /\ state'.endTimestamp = Num(pre.endTimestamp.v + (now - at))]_vars

\* C14 as amended: from every running state whose end time E is not yet past
\* when the pause is handled (E >= t), pause-clock at t followed by
\* resume-clock at t' >= t, nothing else handled in between, restores running
\* with endTimestamp = E + (t' - t).  A past E is outside the round trip: the
\* pause keeps max(0, E - t), not E - t.
PauseResumeRoundTripWithTimeLeft ==
  [][(/\ lastEv.type = "pause-clock" /\ pre.running /\ pre.endTimestamp.v >= at
      /\ lastEv'.type = "resume-clock") =>
        /\ state'.running
        /\ state'.endTimestamp = Num(pre.endTimestamp.v + (now - at))]_vars

\* C14 witness: a resume-clock has just restarted the clock, after time has
\* passed, from a remainder above 0, to end that remainder from now.
PauseResumeRoundTripWithTimeLeft_Witness ==
  /\ lastEv.type = "resume-clock"
  /\ at > Now0
  /\ ~pre.running /\ Present(pre.pausedRemaining) /\ pre.pausedRemaining.v > 0
  /\ state.running /\ state.endTimestamp = Num(at + pre.pausedRemaining.v)

SetRemainingChangesOneField ==
  (lastEv.type = "set-remaining" /\ lastEv.arg.t = "number") =>
    LET d == IF lastEv.arg.v > MsThreshold THEN lastEv.arg.v ELSE Max(0, lastEv.arg.v * MsPerMinute)
    IN /\ d >= 0
       /\ IF pre.running
          THEN state = [pre EXCEPT !.endTimestamp = Num(at + d)]
          ELSE state = [pre EXCEPT !.pausedRemaining = Num(d)]

\* C16 witness: set-remaining(1.5) arrived while the clock ran behind a
\* teaser with a queued duration; the end time moved to one minute from now.
SetRemainingChangesOneField_Witness ==
  /\ lastEv.type = "set-remaining" /\ lastEv.arg.t = "number" /\ lastEv.arg.half
  /\ pre.running /\ pre.videoPlaying /\ Present(pre.pendingClockMs)
  /\ state.endTimestamp = Num(at + MsPerMinute) /\ state.endTimestamp # pre.endTimestamp
  /\ state.pendingClockMs = pre.pendingClockMs

\* C17: a malformed argument is rejected without effect: after a
\* set-remaining whose argument is not of type number, or a sync-timestamp
\* whose argument is not of type number or is not above 0, the state is what
\* it was and nothing has been emitted.
MalformedRejected ==
  (\/ lastEv.type = "set-remaining" /\ lastEv.arg.t # "number"
   \/ lastEv.type = "sync-timestamp" /\ (lastEv.arg.t # "number" \/ lastEv.arg.v <= 0)) =>
    /\ state = pre
    /\ emitted = <<>>

\* The number of messages named ev among msgs.
CountOf(msgs, ev) == Cardinality({i \in 1..Len(msgs) : msgs[i].ev = ev})

\* C18: a fake-press from peer p at time t is accepted, with exactly one
\* fake-press broadcast and exactly one fake-press-ack, if and only if p has
\* had no press accepted yet or t is at least 800 ms after p's last accepted
\* press; otherwise nothing is emitted and p's window is not moved.  (A step
\* that handles a fake-press is one that leaves the time alone and ends with
\* fake-press as the last event; lastFakePress[p] is 0 until p's first
\* accepted press and the time of the last accepted one after.)
DebouncePerPeer ==
  [][(lastEv'.type = "fake-press" /\ now' = now) =>
       LET p == lastEv'.socket
       IN IF lastFakePress[p] = 0 \/ now - lastFakePress[p] >= DebounceMs
          THEN /\ Len(emitted') = 2
               /\ CountOf(emitted', "fake-press") = 1
               /\ CountOf(emitted', "fake-press-ack") = 1
               /\ lastFakePress' = [lastFakePress EXCEPT ![p] = now]
          ELSE /\ emitted' = <<>>
               /\ lastFakePress' = lastFakePress]_vars

\* C18 witness: a press has just been dropped for coming at the very instant
\* of its peer's last accepted press, while another peer's window is open.
DebouncePerPeer_Witness ==
  /\ lastEv.type = "fake-press"
  /\ emitted = <<>>
  /\ lastFakePress[lastEv.socket] = at
  /\ \E q \in connected : q # lastEv.socket /\ lastFakePress[q] = 0

\* C19: an accepted fake-press from peer p emits the fake-press event to
\* every connected peer, p included, and then the fake-press-ack to p alone,
\* with p's id and the time of the press.
FakePressAckToSenderOnly ==
  (lastEv.type = "fake-press" /\ emitted # <<>>) =>
    /\ lastEv.socket \in connected
    /\ emitted = <<[ev |-> "fake-press", to |-> connected, payload |-> NoPayload],
                   [ev |-> "fake-press-ack", to |-> {lastEv.socket},
                    payload |-> [from |-> "server", timestamp |-> at, socketId |-> lastEv.socket]]>>

\* C19 witness: a press was accepted after time had passed while another
\* peer was connected; that peer got the broadcast and not the ack.
FakePressAckToSenderOnly_Witness ==
  /\ lastEv.type = "fake-press" /\ Len(emitted) = 2
  /\ at > Now0
  /\ \E q \in connected : q # lastEv.socket /\ q \in emitted[1].to /\ q \notin emitted[2].to
  /\ emitted[2].payload.socketId = lastEv.socket /\ emitted[2].payload.timestamp = at

\* C20: stop-video changes videoPlaying, to false, and videoType, to none,
\* and no other field, and a second stop-video right after it gives the
\* state the first one gave.
StopVideoIdempotent ==
  lastEv.type = "stop-video" =>
    /\ state = [pre EXCEPT !.videoPlaying = FALSE, !.videoType = "null"]
    /\ OnStopVideo(state, at).st = state

\* C20 witness: stop-video ended a teaser that had a duration queued behind
\* a running clock; the queued duration and the clock are as they were.
StopVideoIdempotent_Witness ==
  /\ lastEv.type = "stop-video"
  /\ pre.videoPlaying /\ pre.videoType = "teaser" /\ pre.running
  /\ Present(pre.pendingClockMs) /\ pre.pendingClockMs.v > 0
  /\ ~state.videoPlaying /\ state.videoType = "null"
  /\ state.pendingClockMs = pre.pendingClockMs /\ state.endTimestamp = pre.endTimestamp

\* C21: every state-update emitted, to all peers after a mutation or to the
\* joining peer alone, carries the six fields of the state as they are and a
\* serverTime field holding the time of the emission.
StateUpdateCarriesServerTime ==
  \A i \in 1..Len(emitted) :
    emitted[i].ev = "state-update" =>
      /\ \A f \in DOMAIN state : f \in DOMAIN emitted[i].payload /\ emitted[i].payload[f] = state[f]
      /\ "serverTime" \in DOMAIN emitted[i].payload
      /\ emitted[i].payload.serverTime = at

\* C22 as stated: play-teaser keeps a pendingClockMs that is present, and
\* sets it, to the ms sent or else to 24 h, only when it is absent.
PlayTeaserKeepsPending ==
  lastEv.type = "play-teaser" =>
    IF Present(pre.pendingClockMs)
    THEN state.pendingClockMs = pre.pendingClockMs
    ELSE state.pendingClockMs = Num(IF lastEv.arg.t = "number" THEN lastEv.arg.v ELSE DefaultClockMs)

\* C22 as amended: play-teaser sets pendingClockMs to the ms sent, or to 24 h
\* when none is sent, whatever it was before, sets videoPlaying to true and
\* videoType to teaser, and leaves the other fields alone.
PlayTeaserOverwritesPending ==
  lastEv.type = "play-teaser" =>
    state = [pre EXCEPT !.pendingClockMs = Num(IF lastEv.arg.t = "number" THEN lastEv.arg.v ELSE DefaultClockMs),
                        !.videoPlaying = TRUE, !.videoType = "teaser"]

\* C22 witness: a play-teaser without ms found a duration queued and
\* replaced it by the 24 h default.
PlayTeaserOverwritesPending_Witness ==
  /\ lastEv.type = "play-teaser" /\ lastEv.arg.t = "undefined"
  /\ Present(pre.pendingClockMs) /\ pre.pendingClockMs.v > 0
  /\ pre.pendingClockMs.v # DefaultClockMs
  /\ state.pendingClockMs = Num(DefaultClockMs)

\* C23: starting the clock supersedes the video: after an event that took
\* running from false to true, no video is playing, videoType is none and
\* pendingClockMs is absent.
StartSupersedesVideo ==
  (~pre.running /\ state.running) =>
    /\ ~state.videoPlaying
    /\ state.videoType = "null"
    /\ ~Present(state.pendingClockMs)

\* C24: a fake-press from peer p, accepted or dropped, changes no field of
\* the state and no other peer's debounce time, so what a press from another
\* peer q would do now (be accepted or dropped, and what it would emit) is
\* what it would have done had p not pressed.
DebounceScopedToPeer ==
  [][(lastEv'.type = "fake-press" /\ now' = now) =>
       /\ state' = state
       /\ \A q \in Peers \ {lastEv'.socket} :
            /\ lastFakePress'[q] = lastFakePress[q]
            /\ OnFakePress(lastFakePress'[q], q, now) = OnFakePress(lastFakePress[q], q, now)]_vars

\* C24 witness: p's press has just been accepted while the clock runs and
\* another connected peer q has a window of its own, opened earlier: q's
\* window is as q's own press left it.
DebounceScopedToPeer_Witness ==
  /\ lastEv.type = "fake-press" /\ Len(emitted) = 2
  /\ state.running /\ state = pre
  /\ \E q \in connected :
       /\ q # lastEv.socket
       /\ lastFakePress[q] # 0
       /\ lastFakePress[q] < lastFakePress[lastEv.socket]

\* C25: stop-clock resets the clock and nothing else: from every state it
\* leaves endTimestamp, pausedRemaining and pendingClockMs absent and running
\* false, and videoPlaying and videoType as they were; a video-ended coming
\* next ends the video and starts no clock.
HardStopResetsClockOnly ==
  lastEv.type = "stop-clock" =>
    /\ ~Present(state.endTimestamp) /\ ~Present(state.pausedRemaining)
    /\ ~Present(state.pendingClockMs) /\ ~state.running
    /\ state.videoPlaying = pre.videoPlaying /\ state.videoType = pre.videoType
    /\ LET ended == OnVideoEnded(state, at).st
       IN ended = [state EXCEPT !.videoPlaying = FALSE, !.videoType = "null"]

\* C25 witness: stop-clock arrived while a teaser played with a duration
\* queued behind it: the teaser still plays and the duration is gone.
HardStopResetsClockOnly_Witness ==
  /\ lastEv.type = "stop-clock"
  /\ pre.videoPlaying /\ pre.videoType = "teaser" /\ Truthy(pre.pendingClockMs)
  /\ state.videoPlaying /\ state.videoType = "teaser"
  /\ ~Present(state.pendingClockMs) /\ ~state.running

\* C26: while a video is playing, no clock command (start-clock,
\* resume-clock, set-remaining, sync-timestamp) takes running from false to
\* true or ends the video, and a start-clock is kept as pendingClockMs.
VideoGatesClockCommands ==
  (lastEv.type \in {"start-clock", "resume-clock", "set-remaining", "sync-timestamp"} /\ pre.videoPlaying) =>
    /\ pre.running \/ ~state.running
    /\ state.videoPlaying
    /\ lastEv.type = "start-clock" => state.pendingClockMs = Num(MsOf(lastEv))

\* The events by which a display reports that its video is over.
EndReports == {"video-ended", "video-error"}

\* C27: when a video-ended or video-error has started the clock from
\* pendingClockMs, the clock has been started once, from that duration, and a
\* further video-ended or video-error, now or later, from whichever peer,
\* leaves the state as it is; so does any number of them in any order.
DuplicateEndReportsIgnored ==
  (lastEv.type \in EndReports /\ Truthy(pre.pendingClockMs)) =>
    /\ state.running
    /\ state.endTimestamp = Num(at + pre.pendingClockMs.v)
    /\ \A t \in {at, at + TickMs} :
         /\ OnVideoEnded(state, t).st = state
         /\ OnVideoError(state, t).st = state

\* C27 witness: the end of a teaser has been reported and the clock started
\* from the duration queued behind it, and a second report, of either kind,
\* handled one tick later would change nothing.
DuplicateEndReportsIgnored_Witness ==
  /\ lastEv.type \in EndReports
  /\ pre.videoPlaying /\ pre.videoType = "teaser" /\ pre.pendingClockMs = Num(TickMs)
  /\ state.running /\ state.endTimestamp = Num(at + TickMs) /\ ~state.videoPlaying
  /\ OnVideoEnded(state, at + TickMs).st.endTimestamp = Num(at + TickMs)
  /\ OnVideoError(state, at + TickMs).st.endTimestamp = Num(at + TickMs)

====
